---------------------------- MODULE Spec2Model ----------------------------
(***************************************************************************)
(* A model of the ReviewFriends analytics pipeline:                        *)
(*   src/etl_reviewfriends.py  the extract-transform-load script           *)
(*   src/dash_dashboard.py     the dashboard over the unified table        *)
(*                                                                         *)
(* A DataFrame is a sequence of rows, a row a record keyed by column       *)
(* name.  The missing value (None, NaN, NaT) is the value NaN below.       *)
(* The script is a straight line of statements; pc names the next group    *)
(* of statements to run, "crashed" an uncaught exception, "done" the end.  *)
(***************************************************************************)
EXTENDS Integers, Sequences, FiniteSets, TLC

VARIABLES
    pc,               \* position in etl_reviewfriends.py
    fileStatus,       \* what reading each of the three files does
    bound,            \* the DataFrame names bound so far
    partner_df, mapping_df, conversions_df, composite_merge,
    keyed_conversions, keyed_partner,  \* the tables as keyed at lines 140-141
    console,          \* diagnostics printed so far
    error,            \* the uncaught exception, "none" while running
    sink,             \* the sink chosen at the prompts and what it received
    fz,               \* one call of fuzzy_match: its inputs and its result
    ct,               \* one importance binning: the score and its label
    merged_df,        \* the dashboard's table
    onebigtable,      \* the file the dashboard read at start
    figure            \* the data of the figure the last callback returned

etlVars  == <<pc, fileStatus, bound, partner_df, mapping_df, conversions_df,
              composite_merge, keyed_conversions, keyed_partner, console,
              error, sink>>
dashVars == <<merged_df, onebigtable, figure>>
vars     == <<etlVars, fz, ct, dashVars>>

----------------------------------------------------------------------------
(* Bounds of the model.                                                    *)

MaxConversions == 3     \* rows read from reviewfriends_conversions.csv
MaxPartner     == 3     \* rows read from partner_data.csv
MaxChoices     == 3     \* vocabulary size of one fuzzy_match call
ScoreMargin    == 5     \* scores tried below 0 and above 100
MaxDashRows    == 12    \* rows of the dashboard's table
MaxSpread      == 12    \* distinct countries in the dashboard's table
MaxSkew        == 4     \* leading rows of the dashboard's table in one country

----------------------------------------------------------------------------
(* Values and generic DataFrame helpers.                                   *)

NaN == "<NaN>"          \* None / NaN / NaT; no string of the data equals it

IsNull(v) == v = NaN

Ext(r, c, v) == [x \in (DOMAIN r) \cup {c} |-> IF x = c THEN v ELSE r[x]]

Idx(df) == 1..Len(df)

RECURSIVE Rows(_, _, _)
\* df[mask]: the rows whose index is in S, in order
Rows(df, S, i) ==
    IF i > Len(df) THEN <<>>
    ELSE (IF i \in S THEN <<df[i]>> ELSE <<>>) \o Rows(df, S, i + 1)

\* df.drop_duplicates(): keep the first of each group of identical rows
drop_duplicates(df) ==
    Rows(df, {i \in Idx(df) : \A j \in 1..(i - 1) : df[j] # df[i]}, 1)

\* df.dropna(): drop the rows holding a missing value
dropna(df) ==
    Rows(df, {i \in Idx(df) : \A c \in DOMAIN df[i] : ~IsNull(df[i][c])}, 1)

\* s.value_counts(): count per value, the missing value left out (dropna=True)
value_counts(df, c) ==
    [v \in {df[i][c] : i \in Idx(df)} \ {NaN} |->
        Cardinality({i \in Idx(df) : df[i][c] = v})]

\* s.nunique(): number of distinct values, the missing value left out
nunique(df, c) == Cardinality({df[i][c] : i \in Idx(df)} \ {NaN})

\* the nondecreasing index sequences of length 1..max over 1..n: the tables
\* read from a file, as multisets of the rows the model knows
IdxSeqs(n, max) ==
    UNION {{s \in [1..k -> 1..n] : \A i \in 1..(k - 1) : s[i] <= s[i + 1]}
           : k \in 1..max}

----------------------------------------------------------------------------
(* The three input files (etl_reviewfriends.py:27-29).                     *)

Sources == <<"partner_df", "mapping_df", "conversions_df">>   \* read order

LoadOutcomes == {"ok", "FileNotFoundError", "EmptyDataError", "Exception"}

T1 == 19723 * 86400 + 10 * 3600     \* 2024-01-01 10:00:00 as UNIX seconds
T2 == 19724 * 86400 + 10 * 3600     \* 2024-01-02 10:00:00

PartnerRows == <<
    [ip_country |-> "DE",       important_score |-> "26",
     timestamp |-> T1, country_residency |-> "Germany"],
    [ip_country |-> "Germny",   important_score |-> "150",
     timestamp |-> T1, country_residency |-> "France"],
    [ip_country |-> "US",       important_score |-> "#REF!",
     timestamp |-> T1, country_residency |-> "United States"],
    [ip_country |-> "U-S",      important_score |-> "abc",
     timestamp |-> T2, country_residency |-> "Canada"],
    [ip_country |-> NaN,        important_score |-> "75",
     timestamp |-> T2, country_residency |-> "India"],
    [ip_country |-> "Atlantis", important_score |-> "100",
     timestamp |-> T1, country_residency |-> "Spain"] >>

ConversionRows == <<
    [id |-> 1, session_id |-> "s1", country_name |-> "Germany",
     created_at |-> "2024-01-01 10:00:00", measurement_category |-> "click",
     ui_element |-> "button", is_mobile |-> TRUE],
    [id |-> 2, session_id |-> "s1", country_name |-> " Ger_many",
     created_at |-> "2024-01-01 10:00:00", measurement_category |-> "clicx",
     ui_element |-> "banner", is_mobile |-> FALSE],
    [id |-> 3, session_id |-> "s2", country_name |-> "United States",
     created_at |-> "2024-01-01 10:00:00", measurement_category |-> "clicks",
     ui_element |-> "button", is_mobile |-> FALSE],
    [id |-> 4, session_id |-> "s3", country_name |-> "United States",
     created_at |-> "2024-01-02 10:00:00", measurement_category |-> "page view",
     ui_element |-> "link", is_mobile |-> TRUE],
    [id |-> 5, session_id |-> "s3", country_name |-> "West Bank",
     created_at |-> "2024-01-02 10:00:00", measurement_category |-> "click",
     ui_element |-> "link", is_mobile |-> TRUE] >>

\* page_category_mapping.csv: a repeated row, a row with a missing value and
\* a measurement category listed twice
MappingFile == <<
    [measurement_category |-> "click",     page_category |-> "Home"],
    [measurement_category |-> "click",     page_category |-> "Home"],
    [measurement_category |-> "page view", page_category |-> NaN],
    [measurement_category |-> "purchase",  page_category |-> "Checkout"],
    [measurement_category |-> "click",     page_category |-> "Landing"] >>

PartnerFiles == {[i \in DOMAIN s |-> PartnerRows[s[i]]]
                 : s \in IdxSeqs(Len(PartnerRows), MaxPartner)}

\* the conversions files with a row outside 'West Bank' (line 61 leaves a
\* non-empty table, as it does on the real data)
ConversionFiles ==
    {t \in {[i \in DOMAIN s |-> ConversionRows[s[i]]]
            : s \in IdxSeqs(Len(ConversionRows), MaxConversions)}
       : \E i \in DOMAIN t : t[i].country_name # "West Bank"}

----------------------------------------------------------------------------
(* Text and time conversions, on the strings the model's files hold.       *)

\* re.sub(pat, '', s) for the two patterns of lines 76-77; a string without
\* the pattern, and the missing value, come back unchanged
RegexRemove(s, pat) ==
    CASE s = " Ger_many" /\ pat = "_" -> " Germany"
      [] s = "U-S"       /\ pat = "-" -> "US"
      [] OTHER                        -> s

\* Series.replace('#REF!', 0, regex=True): a cell the pattern matches becomes
\* the value 0 whole (kept here as the text "0", which astype(int) reads as 0)
ReplaceRef(v) == IF v = "#REF!" THEN "0" ELSE v

\* str.strip(); the missing value stays missing
Strip(s) ==
    CASE s = " Germany"  -> "Germany"
      [] s = " Ger_many" -> "Ger_many"
      [] OTHER           -> s

\* Series.fillna(value)
fillna(v, value) == IF IsNull(v) THEN value ELSE v

\* Series.astype(str) of an object column: the missing value becomes 'nan'
AsTypeStr(v) == IF IsNull(v) THEN "nan" ELSE v

\* int(text) for the cells of important_score; FALSE when int() raises
IntLiterals == [t \in {"0", "26", "75", "100", "150"} |->
                 CASE t = "0" -> 0 [] t = "26" -> 26 [] t = "75" -> 75
                   [] t = "100" -> 100 [] t = "150" -> 150]

CanInt(v) == v \in DOMAIN IntLiterals

\* a datetime64 value is a record of its date text and its time of day
Pad2(n) == IF n < 10 THEN "0" \o ToString(n) ELSE ToString(n)

DateOfDay(d) ==
    CASE d = 19723 -> "2024-01-01"
      [] d = 19724 -> "2024-01-02"

\* pd.to_datetime(seconds, unit='s')
FromUnix(sec) ==
    [date |-> DateOfDay(sec \div 86400),
     h |-> (sec % 86400) \div 3600,
     m |-> (sec % 3600) \div 60,
     s |-> sec % 60]

\* pd.to_datetime(text) of 'YYYY-MM-DD HH:MM:SS'
ParseDatetime(text) ==
    CASE text = "2024-01-01 10:00:00" ->
             [date |-> "2024-01-01", h |-> 10, m |-> 0, s |-> 0]
      [] text = "2024-01-02 10:00:00" ->
             [date |-> "2024-01-02", h |-> 10, m |-> 0, s |-> 0]

\* datetime.astype(str): 'YYYY-MM-DD HH:MM:SS', as the pieces of the text
DatetimeStr(dt) ==
    <<dt.date, " ", Pad2(dt.h), ":", Pad2(dt.m), ":", Pad2(dt.s)>>

\* .str.replace(ch, '') on the pieces of a text
StrRemove(pieces, ch) == SelectSeq(pieces, LAMBDA p : p # ch)

RECURSIVE Join(_)
Join(pieces) ==
    IF pieces = <<>> THEN "" ELSE Head(pieces) \o Join(Tail(pieces))

\* Series + text: a missing value stays missing
StrAdd(a, b) == IF IsNull(a) \/ IsNull(b) THEN NaN ELSE a \o b

----------------------------------------------------------------------------
(* STEP 3, cleaning (etl_reviewfriends.py:61-88).                          *)

CleanConversions(df) ==
    LET kept  == Rows(df, {i \in Idx(df) : df[i].country_name # "West Bank"}, 1)
        dedup == drop_duplicates(kept)
    IN  [i \in Idx(dedup) |->
          [dedup[i] EXCEPT
             !.created_at   = ParseDatetime(@),
             !.country_name = AsTypeStr(Strip(RegexRemove(@, "_")))]]

CleanMapping(df) == dropna(drop_duplicates(df))

CleanPartner(df) ==
    LET dedup == drop_duplicates(df)
    IN  [i \in Idx(dedup) |->
          [dedup[i] EXCEPT
             !.timestamp       = FromUnix(@),
             !.important_score = ReplaceRef(@),
             !.ip_country      =
                 AsTypeStr(Strip(RegexRemove(fillna(@, "none"), "-")))]]

----------------------------------------------------------------------------
(* STEP 4, standardization (etl_reviewfriends.py:97-105).                  *)

\* coco.convert(names, to='name_short', not_found=None): the short name of
\* a country the converter knows; with not_found=None a name it does not
\* know is kept as it is
CocoConvert(name) ==
    CASE name \in {"DE", "Germany"}       -> "Germany"
      [] name \in {"US", "United States"} -> "United States"
      [] OTHER                            -> name

standardize_country_names(df, column_name) ==
    [i \in Idx(df) |->
       [df[i] EXCEPT ![column_name] = CocoConvert(Strip(@))]]

----------------------------------------------------------------------------
(* STEP 4, fuzzy matching (etl_reviewfriends.py:107-132).                  *)

\* fuzz.WRatio on the strings of the model's files.  The scorer returns a
\* float in 0..100; the model carries its ceiling, which leaves the test
\* score > threshold unchanged for the integer thresholds 80 and 85.
\* "clicx"/"click" share 4 of 5+5 letters (80.0), "clicks"/"click" 5 of 6+5
\* (90.9), "Germny"/"Germany" 6 of 6+7 (92.3); unrelated strings score low.
WRatio(s1, s2) ==
    CASE s1 = s2                                    -> 100
      [] {s1, s2} = {"clicx", "click"}             -> 80
      [] {s1, s2} = {"clicks", "click"}            -> 91
      [] {s1, s2} = {"Germny", "Germany"}          -> 93
      [] OTHER                                      -> 20

\* process.extractOne(query, choices, scorer=scorer): the best-scoring choice
\* with its score and position, the first one on a tie; None on no choices
extractOne(query, choices, scorer) ==
    IF choices = <<>> THEN NaN
    ELSE LET best == CHOOSE i \in Idx(choices) :
                       /\ \A j \in Idx(choices) :
                            scorer[query, choices[j]] <= scorer[query, choices[i]]
                       /\ \A j \in 1..(i - 1) :
                            scorer[query, choices[j]] < scorer[query, choices[i]]
         IN  [match |-> choices[best],
              score |-> scorer[query, choices[best]],
              index |-> best - 1]

\* the test of line 110 written with >=
Accept_AtLeast(score, threshold) == score >= threshold

\* line 110: the test on the best candidate's score
Accept(score, threshold) == score > threshold

\* fuzzy_match(row, target_col, choices, scorer, threshold)
fuzzy_match(row, target_col, choices, scorer, threshold) ==
    LET one == extractOne(row[target_col], choices, scorer)
    IN  IF Accept(one.score, threshold) THEN one.match ELSE NaN

ConversionThreshold == 80
PartnerThreshold    == 85

Column(df, c) == [i \in Idx(df) |-> df[i][c]]      \* df[c].tolist()

\* scorer=fuzz.WRatio (lines 116 and 129), as the function the calls of one
\* pass apply: from a query and a choice to the score
WRatioOn(queries, choices) ==
    [q \in queries, c \in {choices[i] : i \in Idx(choices)} |-> WRatio(q, c)]

\* lines 122-123: the dict built over mapping_df.iterrows() keeps the last
\* page_category of a measurement_category; Series.map gives NaN off the dict
description_to_category(mapping) ==
    [k \in {mapping[i].measurement_category : i \in Idx(mapping)} |->
        mapping[CHOOSE i \in Idx(mapping) :
                  /\ mapping[i].measurement_category = k
                  /\ \A j \in (i + 1)..Len(mapping) :
                       mapping[j].measurement_category # k].page_category]

MapDict(v, dict) == IF v \in DOMAIN dict THEN dict[v] ELSE NaN

\* lines 113-123
MatchConversions(conv, mapping) ==
    [i \in Idx(conv) |->
       LET choices == Column(mapping, "measurement_category")
           m == fuzzy_match(conv[i], "measurement_category", choices,
                            WRatioOn({conv[i].measurement_category}, choices),
                            ConversionThreshold)
       IN  Ext(Ext(conv[i], "matched_description", m),
               "page_name", MapDict(m, description_to_category(mapping)))]

\* lines 126-132
MatchPartner(partner, conv) ==
    [i \in Idx(partner) |->
       LET choices == Column(conv, "country_name")
       IN  Ext(partner[i], "std_country",
               fuzzy_match(partner[i], "ip_country", choices,
                           WRatioOn({partner[i].ip_country}, choices),
                           PartnerThreshold))]

----------------------------------------------------------------------------
(* STEP 5.1, composite keys and the join (etl_reviewfriends.py:136-164).   *)

\* country + '_' + timestamp.astype(str).str.replace(' ', '').str.replace(':', '')
CompositeKey(country, dt) ==
    StrAdd(StrAdd(country, "_"),
           Join(StrRemove(StrRemove(DatetimeStr(dt), " "), ":")))

AddKeys(df, country_col, time_col) ==
    [i \in Idx(df) |->
       Ext(df[i], "composite_key",
           CompositeKey(df[i][country_col], df[i][time_col]))]

\* lines 144 and 146: value_counts()[value_counts() > 1].index
repeated_keys(df) ==
    LET vc == value_counts(df, "composite_key")
    IN  {k \in DOMAIN vc : vc[k] > 1}

\* the dedup as drop_duplicates(subset="composite_key"): the first row of
\* each key kept
RemoveRepeated_KeepFirst(df) ==
    Rows(df, {i \in Idx(df) :
                \A j \in 1..(i - 1) : df[j].composite_key # df[i].composite_key}, 1)

\* lines 145 and 147: df[~df["composite_key"].isin(repeated)]
RemoveRepeated(df) ==
    Rows(df, {i \in Idx(df) : df[i].composite_key \notin repeated_keys(df)}, 1)

RECURSIVE Flatten(_)
Flatten(ss) == IF ss = <<>> THEN <<>> ELSE Head(ss) \o Flatten(Tail(ss))

PartnerColumns ==
    {"ip_country", "important_score", "timestamp", "country_residency",
     "std_country", "composite_key"}

\* the merge with how='left': a left row without a partner row kept, its
\* partner columns missing
Merge_Left(left, right) ==
    Flatten([i \in Idx(left) |->
        LET hits == Rows(right, {j \in Idx(right) :
                        right[j].composite_key = left[i].composite_key}, 1)
        IN  IF hits = <<>>
            THEN <<[c \in (DOMAIN left[i]) \cup PartnerColumns |->
                     IF c \in DOMAIN left[i] THEN left[i][c] ELSE NaN]>>
            ELSE [j \in Idx(hits) |->
                   [c \in (DOMAIN left[i]) \cup (DOMAIN hits[j]) |->
                      IF c \in DOMAIN left[i] THEN left[i][c] ELSE hits[j][c]]]])

\* pd.merge(left, right, how='inner', on='composite_key'): every pair of a
\* left and a right row with equal keys, in left order; merge treats two
\* missing keys as equal
Merge(left, right) ==
    Flatten([i \in Idx(left) |->
        LET hits == Rows(right, {j \in Idx(right) :
                        right[j].composite_key = left[i].composite_key}, 1)
        IN  [j \in Idx(hits) |->
               [c \in (DOMAIN left[i]) \cup (DOMAIN hits[j]) |->
                   IF c \in DOMAIN left[i] THEN left[i][c] ELSE hits[j][c]]]])

final_columns ==
    {"id", "session_id", "composite_key", "std_country", "country_name",
     "is_mobile", "ui_element", "timestamp", "created_at", "page_name",
     "country_residency", "important_score"}

Project(df, columns) == [i \in Idx(df) |-> [c \in columns |-> df[i][c]]]

----------------------------------------------------------------------------
(* STEP 5.2-5.3, typing and the importance bins (lines 166-182).           *)

\* Series.astype(int) raises when a cell is no integer
CanCoerce(df) == \A i \in Idx(df) : CanInt(df[i].important_score)

Coerce(df) ==
    [i \in Idx(df) |-> [df[i] EXCEPT !.important_score = IntLiterals[@]]]

bins   == <<0, 25, 50, 75, 100>>
labels == <<"Low", "Medium", "High", "Very High">>

\* the bins closed on the left, as pd.cut(..., right=False) makes them
Cut_LeftClosed(x) ==
    IF \E i \in 1..Len(labels) :
          \/ bins[i] <= x /\ x < bins[i + 1]
          \/ i = Len(labels) /\ x = bins[i + 1]
    THEN labels[CHOOSE i \in 1..Len(labels) :
                  \/ bins[i] <= x /\ x < bins[i + 1]
                  \/ i = Len(labels) /\ x = bins[i + 1]]
    ELSE NaN

\* pd.cut(x, bins=bins, labels=labels, include_lowest=True), right-closed
\* intervals; a value in no interval is missing
Cut(x) ==
    IF \E i \in 1..Len(labels) :
          \/ bins[i] < x /\ x <= bins[i + 1]
          \/ i = 1 /\ x = bins[1]
    THEN labels[CHOOSE i \in 1..Len(labels) :
                  \/ bins[i] < x /\ x <= bins[i + 1]
                  \/ i = 1 /\ x = bins[1]]
    ELSE NaN

\* lines 174 and 182: the category, then astype(str)
Importance(score) == AsTypeStr(Cut(score))

Categorize(df) ==
    [i \in Idx(df) |-> Ext(df[i], "importance", Importance(df[i].important_score))]

----------------------------------------------------------------------------
(* The ETL script, statement group by statement group.                     *)

SourceSet == {Sources[i] : i \in 1..Len(Sources)}

\* lines 22-37: one try block around the three reads; the first read that
\* raises ends the block, and the names after it stay unbound
FirstFailure(status) ==
    IF \A i \in 1..Len(Sources) : status[Sources[i]] = "ok"
    THEN Len(Sources) + 1
    ELSE CHOOSE i \in 1..Len(Sources) :
           /\ status[Sources[i]] # "ok"
           /\ \A j \in 1..(i - 1) : status[Sources[j]] = "ok"

LoadedSources(status) == {Sources[i] : i \in 1..(FirstFailure(status) - 1)}

\* the one line the try block prints (lines 31-37)
LoadMessage(status) ==
    LET f == FirstFailure(status)
    IN  IF f > Len(Sources) THEN "DataFrames loaded successfully."
        ELSE CASE status[Sources[f]] = "FileNotFoundError" ->
                      "Error: One or more files were not found."
               [] status[Sources[f]] = "EmptyDataError" ->
                      "Error: One or more files are empty."
               [] OTHER -> "An unexpected error occurred"

Idle == [state |-> "idle"]

EtlIdle ==
    /\ pc = "idle" /\ fileStatus = Idle /\ bound = {}
    /\ partner_df = <<>> /\ mapping_df = <<>> /\ conversions_df = <<>>
    /\ composite_merge = <<>> /\ keyed_conversions = <<>> /\ keyed_partner = <<>>
    /\ console = <<>> /\ error = "none" /\ sink = Idle

DashIdle == merged_df = <<>> /\ onebigtable = <<>> /\ figure = Idle

Init ==
    /\ pc = "load"
    /\ fileStatus \in [SourceSet -> LoadOutcomes]
    /\ bound = {}
    /\ partner_df = <<>> /\ mapping_df = <<>> /\ conversions_df = <<>>
    /\ composite_merge = <<>> /\ keyed_conversions = <<>> /\ keyed_partner = <<>>
    /\ console = <<>> /\ error = "none"
    /\ sink = [kind |-> "none", wrote |-> FALSE, failed |-> FALSE, rows |-> <<>>]
    /\ fz = Idle /\ ct = Idle /\ DashIdle

Raise(exception) == pc' = "crashed" /\ error' = exception

\* lines 22-37
Load ==
    /\ pc = "load"
    /\ \E p \in PartnerFiles, c \in ConversionFiles :
         LET got == LoadedSources(fileStatus)
         IN  /\ bound' = got
             /\ partner_df'     = IF "partner_df" \in got THEN p ELSE <<>>
             /\ mapping_df'     = IF "mapping_df" \in got THEN MappingFile ELSE <<>>
             /\ conversions_df' = IF "conversions_df" \in got THEN c ELSE <<>>
    /\ console' = Append(console, LoadMessage(fileStatus))
    /\ pc' = "explore"
    /\ UNCHANGED <<fileStatus, composite_merge, keyed_conversions,
                   keyed_partner, error, sink, fz, ct, dashVars>>

\* lines 41-58 read partner_df, then conversions_df: an unbound name raises
Explore ==
    /\ pc = "explore"
    /\ IF {"partner_df", "conversions_df"} \subseteq bound
       THEN pc' = "clean" /\ error' = error
       ELSE Raise("NameError")
    /\ UNCHANGED <<fileStatus, bound, partner_df, mapping_df, conversions_df,
                   composite_merge, keyed_conversions, keyed_partner, console,
                   sink, fz, ct, dashVars>>

\* lines 61-88
Clean ==
    /\ pc = "clean"
    /\ conversions_df' = CleanConversions(conversions_df)
    /\ mapping_df'     = CleanMapping(mapping_df)
    /\ partner_df'     = CleanPartner(partner_df)
    /\ pc' = "standardize"
    /\ UNCHANGED <<fileStatus, bound, composite_merge, keyed_conversions,
                   keyed_partner, console, error, sink, fz, ct, dashVars>>

\* lines 104-105
Standardize ==
    /\ pc = "standardize"
    /\ conversions_df' = standardize_country_names(conversions_df, "country_name")
    /\ partner_df'     = standardize_country_names(partner_df, "ip_country")
    /\ pc' = "fuzzy"
    /\ UNCHANGED <<fileStatus, bound, mapping_df, composite_merge,
                   keyed_conversions, keyed_partner, console, error, sink,
                   fz, ct, dashVars>>

\* lines 113-132; extractOne over no choices returns None, which line 109
\* cannot unpack
FuzzyMatch ==
    /\ pc = "fuzzy"
    /\ IF mapping_df = <<>> \/ conversions_df = <<>>
       THEN /\ Raise("TypeError")
            /\ UNCHANGED <<conversions_df, partner_df>>
       ELSE /\ conversions_df' = MatchConversions(conversions_df, mapping_df)
            /\ partner_df'     = MatchPartner(partner_df, conversions_df)
            /\ pc' = "keys" /\ error' = error
    /\ UNCHANGED <<fileStatus, bound, mapping_df, composite_merge,
                   keyed_conversions, keyed_partner, console, sink,
                   fz, ct, dashVars>>

\* lines 136-141
CompositeKeys ==
    /\ pc = "keys"
    /\ partner_df'     = AddKeys(partner_df, "std_country", "timestamp")
    /\ conversions_df' = AddKeys(conversions_df, "country_name", "created_at")
    /\ keyed_partner'     = partner_df'
    /\ keyed_conversions' = conversions_df'
    /\ pc' = "dedup"
    /\ UNCHANGED <<fileStatus, bound, mapping_df, composite_merge, console,
                   error, sink, fz, ct, dashVars>>

\* lines 144-147
RemoveRepeatedKeys ==
    /\ pc = "dedup"
    /\ conversions_df' = RemoveRepeated(conversions_df)
    /\ partner_df'     = RemoveRepeated(partner_df)
    /\ pc' = "merge"
    /\ UNCHANGED <<fileStatus, bound, mapping_df, composite_merge,
                   keyed_conversions, keyed_partner, console, error, sink,
                   fz, ct, dashVars>>

\* lines 150-164
MergeAndProject ==
    /\ pc = "merge"
    /\ composite_merge' = Project(Merge(conversions_df, partner_df), final_columns)
    /\ bound' = bound \cup {"composite_merge"}
    /\ pc' = "coerce"
    /\ UNCHANGED <<fileStatus, partner_df, mapping_df, conversions_df,
                   keyed_conversions, keyed_partner, console, error, sink,
                   fz, ct, dashVars>>

\* line 167
CoerceScore ==
    /\ pc = "coerce"
    /\ IF CanCoerce(composite_merge)
       THEN /\ composite_merge' = Coerce(composite_merge)
            /\ pc' = "categorize" /\ error' = error
       ELSE /\ Raise("ValueError")
            /\ composite_merge' = composite_merge
    /\ UNCHANGED <<fileStatus, bound, partner_df, mapping_df, conversions_df,
                   keyed_conversions, keyed_partner, console, sink,
                   fz, ct, dashVars>>

\* lines 172-182
CategorizeImportance ==
    /\ pc = "categorize"
    /\ composite_merge' = Categorize(composite_merge)
    /\ pc' = "sink"
    /\ UNCHANGED <<fileStatus, bound, partner_df, mapping_df, conversions_df,
                   keyed_conversions, keyed_partner, console, error, sink,
                   fz, ct, dashVars>>

----------------------------------------------------------------------------
(* The sink (etl_reviewfriends.py:190-235).  io is what the file system or *)
(* the database does with the write: "ok", or "fail" when it raises.       *)

\* load_data_to_file: the write is not inside a try, so a write that raises
\* leaves the function by the exception
load_data_to_file(file_format, io) ==
    IF file_format \in {"parquet", "csv"}
    THEN IF io = "ok"
         THEN [kind |-> file_format, wrote |-> TRUE, failed |-> FALSE,
               raised |-> FALSE, message |-> "Data successfully saved"]
         ELSE [kind |-> file_format, wrote |-> FALSE, failed |-> TRUE,
               raised |-> TRUE, message |-> "none"]
    ELSE [kind |-> "unsupported", wrote |-> FALSE, failed |-> FALSE,
          raised |-> FALSE, message |-> "Unsupported format"]

\* load_data_to_sqlite: to_sql runs inside try/except Exception
load_data_to_sqlite(in_memory, io) ==
    LET kind == IF in_memory THEN "sqlite_memory" ELSE "sqlite_file"
    IN  IF io = "ok"
        THEN [kind |-> kind, wrote |-> TRUE, failed |-> FALSE,
              raised |-> FALSE, message |-> "Data successfully loaded"]
        ELSE [kind |-> kind, wrote |-> FALSE, failed |-> TRUE,
              raised |-> FALSE, message |-> "Failed to load data into SQLite"]

\* process_and_load_data(df): the prompts' answers pick the branch
process_and_load_data(user_choice, file_format, in_memory, io) ==
    IF user_choice = "1"
    THEN load_data_to_file(file_format, io)
    ELSE load_data_to_sqlite(in_memory = "yes", io)

\* line 235
ProcessAndLoad ==
    /\ pc = "sink"
    /\ \E user_choice \in {"1", ""}, file_format \in {"parquet", "csv", "xlsx"},
          in_memory \in {"yes", "no"}, io \in {"ok", "fail"} :
         LET out == process_and_load_data(user_choice, file_format, in_memory, io)
         IN  /\ sink' = [kind |-> out.kind, wrote |-> out.wrote,
                         failed |-> out.failed,
                         rows |-> IF out.wrote THEN composite_merge ELSE <<>>]
             /\ IF out.raised
                THEN Raise("OSError") /\ console' = console
                ELSE /\ pc' = "finish" /\ error' = error
                     /\ console' = Append(console, out.message)
    /\ UNCHANGED <<fileStatus, bound, partner_df, mapping_df, conversions_df,
                   composite_merge, keyed_conversions, keyed_partner,
                   fz, ct, dashVars>>

\* line 238
Finish ==
    /\ pc = "finish"
    /\ console' = Append(console, "the ETL pipeline ran successfully")
    /\ pc' = "done"
    /\ UNCHANGED <<fileStatus, bound, partner_df, mapping_df, conversions_df,
                   composite_merge, keyed_conversions, keyed_partner, error,
                   sink, fz, ct, dashVars>>

Next ==
    \/ Load
    \/ Explore
    \/ Clean
    \/ Standardize
    \/ FuzzyMatch
    \/ CompositeKeys
    \/ RemoveRepeatedKeys
    \/ MergeAndProject
    \/ CoerceScore
    \/ CategorizeImportance
    \/ ProcessAndLoad
    \/ Finish

Spec == Init /\ [][Next]_vars

----------------------------------------------------------------------------
(* Properties of the ETL script.                                           *)

Keys(df) == {df[i].composite_key : i \in Idx(df)}

\* occurrences of a key in a table, the missing key counted like any other
\* (as merge, duplicated and groupby do)
KeyCount(df, k) == Cardinality({i \in Idx(df) : df[i].composite_key = k})

Merged == "composite_merge" \in bound

AfterDedup ==
    \/ pc \in {"merge", "coerce", "categorize", "sink", "finish", "done"}
    \/ pc = "crashed" /\ error \in {"ValueError", "OSError"}

\* C1: every row of the join carries a key that occurs exactly once in the
\* keyed conversions table and exactly once in the keyed partner table, that
\* key gives exactly one unified row, and the unified table has no more rows
\* than there are keys unique in both keyed tables.
C1_JoinHasNoFanOut ==
    Merged =>
      /\ \A i \in Idx(composite_merge) :
           LET k == composite_merge[i].composite_key
           IN  /\ KeyCount(keyed_conversions, k) = 1
               /\ KeyCount(keyed_partner, k) = 1
               /\ KeyCount(composite_merge, k) = 1
      /\ Len(composite_merge) <=
           Cardinality({k \in Keys(keyed_conversions) \cap Keys(keyed_partner) :
                          /\ KeyCount(keyed_conversions, k) = 1
                          /\ KeyCount(keyed_partner, k) = 1})

\* a join that produced a row, from tables in which a key was repeated and
\* a partner row had no country, hence no key
C1_Witness ==
    /\ Merged /\ Len(composite_merge) >= 1
    /\ \E k \in Keys(keyed_conversions) \cup Keys(keyed_partner) :
         KeyCount(keyed_conversions, k) > 1 \/ KeyCount(keyed_partner, k) > 1
    /\ NaN \in Keys(keyed_partner)

\* C2: after the dedup step no two rows of the conversions table, and no two
\* rows of the partner table, have the same composite key, the missing key
\* of rows without a country included.
C2_KeysUniqueAfterDedup ==
    AfterDedup =>
      /\ \A k \in Keys(conversions_df) : KeyCount(conversions_df, k) = 1
      /\ \A k \in Keys(partner_df) : KeyCount(partner_df, k) = 1

\* C5: a failed read is caught and reported for its source only: after the
\* load step every source whose file is readable is bound, whatever happened
\* to the other sources.
C5_EveryReadableSourceLoaded ==
    pc # "load" =>
      \A s \in SourceSet : fileStatus[s] = "ok" => s \in bound

\* C6: whatever the sink, a write that fails is caught and reported where it
\* happens, and the process runs on to its end.
C6_SinkFailureCaught ==
    sink.failed =>
      /\ pc \in {"finish", "done"}
      /\ error = "none"

\* C7: with no composite key shared by the cleaned tables the unified table
\* is empty, no step after the join raises on it and a sink that writes
\* receives zero rows; with exactly one shared key, unique in both tables,
\* the unified table has exactly one row.
C7_EndToEnd ==
    Merged =>
      LET shared == Keys(conversions_df) \cap Keys(partner_df)
      IN  /\ shared = {} =>
                /\ composite_merge = <<>>
                /\ error # "ValueError"
                /\ pc = "crashed" => sink.failed
                /\ sink.wrote => sink.rows = <<>>
                /\ pc = "done" /\ ~sink.failed /\ sink.kind # "unsupported"
                     => sink.wrote
          /\ (/\ Cardinality(shared) = 1
              /\ \A k \in shared : /\ KeyCount(conversions_df, k) = 1
                                   /\ KeyCount(partner_df, k) = 1)
               => Len(composite_merge) = 1

\* a finished run whose tables shared no key: the sink was written, with
\* zero rows
C7_Witness ==
    /\ pc = "done" /\ sink.wrote /\ sink.rows = <<>>
    /\ Len(conversions_df) >= 1 /\ Len(partner_df) >= 1
    /\ Keys(conversions_df) \cap Keys(partner_df) = {}

\* C10: every row the sink receives has an importance that is one of the
\* four labels.
C10_ImportanceIsALabel ==
    \A i \in Idx(sink.rows) :
       sink.rows[i].importance \in {labels[j] : j \in 1..Len(labels)}

----------------------------------------------------------------------------
(* fuzzy_match on its own: one call, for every vector of scores the scorer *)
(* may return over a vocabulary (etl_reviewfriends.py:108-110).            *)

Vocabulary == <<"click", "page view", "purchase", "signup", "search">>

ScoreValues == {0, 79, 80, 81, 84, 85, 86, 100}

Threshold(pass) ==
    IF pass = "conversions" THEN ConversionThreshold ELSE PartnerThreshold

\* the scorer of the call: the score drawn for each choice
FzScorer ==
    [q \in {fz.query}, c \in {fz.choices[i] : i \in Idx(fz.choices)} |->
        fz.scores[CHOOSE i \in Idx(fz.choices) : fz.choices[i] = c]]

FuzzyInit ==
    /\ \E n \in 1..MaxChoices, pass \in {"conversions", "partner"} :
         \E sc \in [1..n -> ScoreValues] :
            fz = [pass |-> pass, query |-> "query",
                  choices |-> SubSeq(Vocabulary, 1, n), scores |-> sc,
                  called |-> FALSE, result |-> NaN]
    /\ EtlIdle /\ ct = Idle /\ DashIdle

FuzzyCall ==
    /\ fz # Idle /\ ~fz.called
    /\ fz' = [fz EXCEPT
                !.called = TRUE,
                !.result = fuzzy_match([text |-> fz.query], "text", fz.choices,
                                       FzScorer, Threshold(fz.pass))]
    /\ UNCHANGED <<etlVars, ct, dashVars>>

FuzzyNext == FuzzyCall

FuzzySpec == FuzzyInit /\ [][FuzzyNext]_vars

MaxScore(scores) ==
    CHOOSE x \in {scores[i] : i \in DOMAIN scores} :
       \A i \in DOMAIN scores : scores[i] <= x

FirstAt(scores, x) ==
    CHOOSE i \in DOMAIN scores :
       scores[i] = x /\ \A j \in 1..(i - 1) : scores[j] # x

\* C3: fuzzy_match returns the single highest-scoring candidate exactly when
\* its score is strictly above the threshold (80 for the conversions pass, 85
\* for the partner pass); a best score equal to the threshold or below gives
\* the missing value, and a best score of 100 always gives a match.
C3_FuzzyThresholdIsStrict ==
    (fz # Idle /\ fz.called) =>
      LET best  == MaxScore(fz.scores)
          limit == IF fz.pass = "conversions" THEN 80 ELSE 85
      IN  /\ best > limit  => fz.result = fz.choices[FirstAt(fz.scores, best)]
          /\ best <= limit => fz.result = NaN
          /\ best = 100    => fz.result # NaN

\* a partner call whose best score is exactly 85, answered with no match
C3_Witness ==
    /\ fz # Idle /\ fz.called /\ fz.pass = "partner"
    /\ Len(fz.choices) >= 2
    /\ MaxScore(fz.scores) = 85
    /\ fz.result = NaN

----------------------------------------------------------------------------
(* The importance bins on their own (etl_reviewfriends.py:172-182).        *)

CutInit ==
    /\ \E x \in (0 - ScoreMargin)..(100 + ScoreMargin) :
         ct = [score |-> x, done |-> FALSE, importance |-> NaN]
    /\ EtlIdle /\ fz = Idle /\ DashIdle

CutCall ==
    /\ ct # Idle /\ ~ct.done
    /\ ct' = [ct EXCEPT !.done = TRUE, !.importance = Importance(ct.score)]
    /\ UNCHANGED <<etlVars, fz, dashVars>>

CutNext == CutCall

CutSpec == CutInit /\ [][CutNext]_vars

\* C4: a score in 0..25 is Low (0 and 25 included), 26..50 Medium, 51..75
\* High (75 included) and 76..100 Very High (100 included).
C4_ImportanceBuckets ==
    (ct # Idle /\ ct.done) =>
      /\ (0 <= ct.score /\ ct.score <= 25)   => ct.importance = "Low"
      /\ (26 <= ct.score /\ ct.score <= 50)  => ct.importance = "Medium"
      /\ (51 <= ct.score /\ ct.score <= 75)  => ct.importance = "High"
      /\ (76 <= ct.score /\ ct.score <= 100) => ct.importance = "Very High"

\* the score 25, on the edge of the first two bins, binned as Low
C4_Witness ==
    ct # Idle /\ ct.done /\ ct.score = 25 /\ ct.importance = "Low"

----------------------------------------------------------------------------
(* The dashboard (dash_dashboard.py).  merged_df is read once from         *)
(* onebigtable.csv, the unified table the ETL wrote: one row per composite *)
(* key.  The timestamp column holds texts 'YYYY-MM-DD HH:MM:SS'; a date    *)
(* of the picker is such a text (its initial value, lines 43-44) or the    *)
(* text 'YYYY-MM-DD' of a picked day.  A text is <<day, seconds>> or       *)
(* <<day>>, and texts compare as strings do (line 147): by day, then a     *)
(* text that stops at the day before one that goes on.                     *)

DashCountries ==
    <<"Germany", "United States", "United Kingdom", "Canada", "Netherlands",
      "India", "China", "France", "Spain", "Italy", "Brazil", "Japan",
      "Mexico", "Sweden">>

famous_countries ==
    <<"United States", "United Kingdom", "Canada", "Netherlands", "Germany",
      "India", "China">>

\* the dropdown's initial value (line 37) and other selections; None and []
\* are both the empty selection
CountrySelections ==
    {<<>>, <<"USA", "UK", "Germany">>, <<"USA", "UK">>, <<"Germany", "India">>,
     famous_countries}

DeviceSelections == {"All", "Mobile", "Desktop"}

\* row i of a table whose first `skew` rows are of the first country and
\* whose other rows go round `spread` countries
DashRow(i, spread, skew) ==
    LET country == IF i <= skew THEN DashCountries[1]
                   ELSE DashCountries[((i - 1) % spread) + 1]
    IN  [id |-> i,
         session_id |-> "s" \o ToString((i + 1) \div 2),
         composite_key |-> country \o "_2024-01-" \o Pad2(i) \o "100000",
         country_name |-> country,
         is_mobile |-> IF i % 2 = 0 THEN "True" ELSE "False",
         ui_element |-> <<"button", "banner", "link">>[(i % 3) + 1],
         timestamp |-> <<i, 10 * 3600>>,
         important_score |-> (i * 13) % 101]

UnifiedTables ==
    UNION {{[i \in 1..n |-> DashRow(i, spread, skew)]
              : n \in 1..MaxDashRows, spread \in 1..MaxSpread}
           : skew \in 0..MaxSkew}

isin(v, values) == \E k \in Idx(values) : values[k] = v

\* lines 106-109, 142-145, 159-162, 178-182: the rows of the selection, the
\* whole table on an empty selection
FilterCountries(df, selected_countries) ==
    IF selected_countries = <<>> THEN df
    ELSE Rows(df, {i \in Idx(df) : isin(df[i].country_name, selected_countries)}, 1)

FirstIndex(df, c, v) ==
    CHOOSE i \in Idx(df) : df[i][c] = v /\ \A j \in 1..(i - 1) : df[j][c] # v

TopN == 10

\* s.value_counts().head(n).reset_index(): the values by falling count, equal
\* counts in order of first appearance, cut to n
TopCounts(df, c, n) ==
    LET vc      == value_counts(df, c)
        vals    == DOMAIN vc
        Before(w, v) == \/ vc[w] > vc[v]
                        \/ vc[w] = vc[v] /\ FirstIndex(df, c, w) < FirstIndex(df, c, v)
        Rank(v) == Cardinality({w \in vals : Before(w, v)}) + 1
        len     == IF Cardinality(vals) < n THEN Cardinality(vals) ELSE n
    IN  [k \in 1..len |->
           LET v == CHOOSE v \in vals : Rank(v) = k
           IN  [value |-> v, count |-> vc[v]]]

----------------------------------------------------------------------------
(* float64 arithmetic (dash_dashboard.py:114).  A whole number too wide    *)
(* for one machine word is the sequence of its digits to the base 2^18,    *)
(* lowest first and without high zeros.  A float is [mant, exp]: mant the  *)
(* 53 binary digits of its significand as such a number, exp the power of  *)
(* two of the lowest binary digit, so its value is mant * 2^exp.  Division *)
(* and multiplication round to the nearest float, a tie to the even        *)
(* significand, as IEEE 754 arithmetic does.                               *)

Precision == 53

LimbBits == 18

Radix == 2 ^ LimbBits

Limb(x, i) == IF i \in 1..Len(x) THEN x[i] ELSE 0

\* x without its high zero digits
Trim(x) ==
    LET used == {i \in 1..Len(x) : x[i] # 0}
        top  == IF used = {} THEN 0
                ELSE CHOOSE i \in used : \A k \in used : k <= i
    IN  SubSeq(x, 1, top)

\* the number of binary digits of x
Width(x) ==
    IF x = <<>> THEN 0
    ELSE (Len(x) - 1) * LimbBits
         + (CHOOSE k \in 1..LimbBits : 2 ^ (k - 1) <= x[Len(x)] /\ x[Len(x)] < 2 ^ k)

\* binary digit i of x, the lowest being digit 0
Bit(x, i) == (Limb(x, (i \div LimbBits) + 1) \div 2 ^ (i % LimbBits)) % 2

\* x \div 2^n
ShiftRight(x, n) ==
    LET w == n \div LimbBits
        b == n % LimbBits
    IN  Trim([i \in 1..(Len(x) - w) |->
                (Limb(x, i + w) \div 2 ^ b)
                + (Limb(x, i + w + 1) % 2 ^ b) * 2 ^ (LimbBits - b)])

\* x * 2^n
ShiftLeft(x, n) ==
    LET w == n \div LimbBits
        b == n % LimbBits
    IN  Trim([i \in 1..(Len(x) + w + 1) |->
                (Limb(x, i - w) % 2 ^ (LimbBits - b)) * 2 ^ b
                + (Limb(x, i - w - 1) \div 2 ^ (LimbBits - b))])

RECURSIVE AddLimbs(_, _, _)
\* a + b + carry
AddLimbs(a, b, carry) ==
    IF a = <<>> /\ b = <<>>
    THEN IF carry = 0 THEN <<>> ELSE <<carry>>
    ELSE LET t == Limb(a, 1) + Limb(b, 1) + carry
         IN  <<t % Radix>> \o AddLimbs(IF a = <<>> THEN a ELSE Tail(a),
                                      IF b = <<>> THEN b ELSE Tail(b),
                                      t \div Radix)

RECURSIVE MulLimbs(_, _, _)
\* a * k + carry, k a whole number below 2^13
MulLimbs(a, k, carry) ==
    IF a = <<>>
    THEN IF carry = 0 THEN <<>> ELSE <<carry>>
    ELSE LET t == Head(a) * k + carry
         IN  <<t % Radix>> \o MulLimbs(Tail(a), k, t \div Radix)

\* a <= b
LeqLimbs(a, b) ==
    LET w == IF Len(a) > Len(b) THEN Len(a) ELSE Len(b)
    IN  \/ \A i \in 1..w : Limb(a, i) = Limb(b, i)
        \/ \E i \in 1..w : /\ Limb(a, i) < Limb(b, i)
                            /\ \A k \in (i + 1)..w : Limb(a, k) = Limb(b, k)

\* x rounded to its `keep` highest binary digits: [mant, exp], x being about
\* mant * 2^exp; a remainder above one half, or of one half under an odd
\* significand, rounds up
RoundTo(x, keep) ==
    LET drop   == Width(x) - keep
        high   == ShiftRight(x, drop)
        guard  == Bit(x, drop - 1)
        sticky == \E i \in 0..(drop - 2) : Bit(x, i) = 1
        up     == guard = 1 /\ (sticky \/ Bit(high, 0) = 1)
        inc    == IF up THEN AddLimbs(high, <<1>>, 0) ELSE high
    IN  IF drop <= 0 THEN [mant |-> ShiftLeft(x, 0 - drop), exp |-> drop]
        ELSE IF Width(inc) > keep
        THEN [mant |-> ShiftRight(inc, 1), exp |-> drop + 1]
        ELSE [mant |-> inc, exp |-> drop]

RECURSIVE Normalise(_, _, _)
\* n / d = n' / d' * 2^e' with d' <= n' < 2 * d'
Normalise(n, d, e) ==
    IF n >= 2 * d THEN Normalise(n, 2 * d, e + 1)
    ELSE IF n < d THEN Normalise(2 * n, d, e - 1)
    ELSE [n |-> n, d |-> d, e |-> e]

\* digits enough after the point of a quotient for Precision and one more
FracLimbs == (Precision \div LimbBits) + 1

RECURSIVE QuotientLimbs(_, _, _)
\* the next k digits of r / d, r < d, lowest first; under an even lowest
\* digit a remainder left counts as one
QuotientLimbs(r, d, k) ==
    LET q   == (r * Radix) \div d
        rem == (r * Radix) % d
    IN  IF k = 1
        THEN <<IF rem > 0 /\ q % 2 = 0 THEN q + 1 ELSE q>>
        ELSE QuotientLimbs(rem, d, k - 1) \o <<q>>

\* the float c / t of two whole numbers, c > 0 and t > 0
FloatDiv(c, t) ==
    LET nm == Normalise(c, t, 0)
        r  == RoundTo(QuotientLimbs(nm.n - nm.d, nm.d, FracLimbs) \o <<1>>,
                      Precision)
    IN  [mant |-> r.mant, exp |-> nm.e - FracLimbs * LimbBits + r.exp]

\* the float f * k, k a whole number below 2^13
FloatMul(f, k) ==
    LET r == RoundTo(MulLimbs(f.mant, k, 0), Precision)
    IN  [mant |-> r.mant, exp |-> f.exp + r.exp]

\* the total of line 111 taken over session_id, as the scorecard's
\* total_users is (line 15)
PieTotal_Sessions(filtered_df) == nunique(filtered_df, "session_id")

\* line 111
PieTotal(filtered_df) == nunique(filtered_df, "composite_key")

\* lines 105-118; a percentage is the float (conversions / total) * 100
update_country_pie_chart(df, selected_countries) ==
    LET filtered_df       == FilterCountries(df, selected_countries)
        total_conversions == PieTotal(filtered_df)
        top_10            == TopCounts(filtered_df, "country_name", TopN)
    IN  [k \in Idx(top_10) |->
           [country_name |-> top_10[k].value,
            conversions  |-> top_10[k].count,
            percentage   |-> FloatMul(FloatDiv(top_10[k].count,
                                               total_conversions), 100)]]

\* lines 125-132
update_device_pie_chart(df, selected_device) ==
    LET filtered_df ==
          IF selected_device = "All" THEN df
          ELSE Rows(df, {i \in Idx(df) : df[i].is_mobile = selected_device}, 1)
    IN  TopCounts(filtered_df, "is_mobile", Len(filtered_df))

\* a <= b on two date texts, as Python orders strings (line 147)
TextLeq(a, b) ==
    \/ a[1] < b[1]
    \/ /\ a[1] = b[1]
       /\ \/ Len(a) = 1
          \/ Len(b) = 2 /\ a[2] <= b[2]

\* merged_df['timestamp'].min() and .max() (lines 43-44)
MinTimestamp(df) ==
    CHOOSE t \in {df[i].timestamp : i \in Idx(df)} :
        \A i \in Idx(df) : TextLeq(t, df[i].timestamp)

MaxTimestamp(df) ==
    CHOOSE t \in {df[i].timestamp : i \in Idx(df)} :
        \A i \in Idx(df) : TextLeq(df[i].timestamp, t)

\* the picker's values: its initial range (lines 43-44), the picked days
\* '2024-01-02' to '2024-01-03', and a picked end after the initial start
DateRanges(df) ==
    {<<MinTimestamp(df), MaxTimestamp(df)>>,
     <<(<<2>>), (<<3>>)>>,
     <<MinTimestamp(df), (<<3>>)>>}

\* lines 141-151
update_conversion_trend(df, selected_countries, start_date, end_date) ==
    LET by_country  == FilterCountries(df, selected_countries)
        filtered_df == Rows(by_country,
                            {i \in Idx(by_country) :
                               /\ TextLeq(start_date, by_country[i].timestamp)
                               /\ TextLeq(by_country[i].timestamp, end_date)}, 1)
    IN  Project(filtered_df, {"timestamp", "composite_key", "country_name"})

\* lines 158-169
update_ui_element_bar_chart(df, selected_countries) ==
    TopCounts(FilterCountries(df, selected_countries), "ui_element", TopN)

\* line 185: the size of each row's id group, as a new column
WithIdCount(df) ==
    [i \in Idx(df) |->
       Ext(df[i], "id_count",
           Cardinality({j \in Idx(df) : df[j].id = df[i].id}))]

\* lines 176-199: on an empty selection filtered_df is merged_df itself, and
\* line 185 adds the column to it; a selection filters into a new table
BubbleTable(df, selected_countries) ==
    IF selected_countries = <<>> THEN WithIdCount(df) ELSE df

DashInit ==
    /\ onebigtable \in UnifiedTables
    /\ merged_df = onebigtable
    /\ figure = [panel |-> "none", data |-> <<>>]
    /\ EtlIdle /\ fz = Idle /\ ct = Idle

CountryPie ==
    /\ \E selected_countries \in CountrySelections :
         figure' = [panel |-> "country-pie-chart",
                    data |-> update_country_pie_chart(merged_df, selected_countries)]
    /\ UNCHANGED <<etlVars, fz, ct, merged_df, onebigtable>>

DevicePie ==
    /\ \E selected_device \in DeviceSelections :
         figure' = [panel |-> "device-pie-chart",
                    data |-> update_device_pie_chart(merged_df, selected_device)]
    /\ UNCHANGED <<etlVars, fz, ct, merged_df, onebigtable>>

ConversionTrend ==
    /\ \E selected_countries \in CountrySelections,
          range \in DateRanges(merged_df) :
         figure' = [panel |-> "conversion-trend-chart",
                    data |-> update_conversion_trend(merged_df, selected_countries,
                                                     range[1], range[2])]
    /\ UNCHANGED <<etlVars, fz, ct, merged_df, onebigtable>>

UiElementBar ==
    /\ \E selected_countries \in CountrySelections :
         figure' = [panel |-> "ui-element-bar-chart",
                    data |-> update_ui_element_bar_chart(merged_df, selected_countries)]
    /\ UNCHANGED <<etlVars, fz, ct, merged_df, onebigtable>>

BubbleWorldMap ==
    /\ \E selected_countries \in CountrySelections :
         /\ merged_df' = BubbleTable(merged_df, selected_countries)
         /\ figure' = [panel |-> "bubble-world-map",
                       data |-> WithIdCount(FilterCountries(merged_df,
                                                            selected_countries))]
    /\ UNCHANGED <<etlVars, fz, ct, onebigtable>>

DashNext ==
    \/ CountryPie
    \/ DevicePie
    \/ ConversionTrend
    \/ UiElementBar
    \/ BubbleWorldMap

DashSpec == DashInit /\ [][DashNext]_vars

\* the lowest power of two among the percentages' lowest digits, and -45
LowExp(data) ==
    CHOOSE e \in {data[k].percentage.exp : k \in Idx(data)} \cup {-45} :
        /\ e <= -45
        /\ \A k \in Idx(data) : e <= data[k].percentage.exp

RECURSIVE SumPercent(_, _)
\* the exact sum of the percentages, in units of 2^e
SumPercent(data, e) ==
    IF data = <<>> THEN <<>>
    ELSE AddLimbs(ShiftLeft(Head(data).percentage.mant,
                            Head(data).percentage.exp - e),
                  SumPercent(Tail(data), e), 0)

\* 100 in units of 2^e, e <= 0
Hundred(e) == ShiftLeft(<<100>>, 0 - e)

\* 100 + 2^-45 in units of 2^e, e <= -45
HundredRounded(e) == AddLimbs(Hundred(e), ShiftLeft(<<1>>, -45 - e), 0)

C9_TableIsReadOnly == merged_df = onebigtable

=============================================================================
